---- MODULE Spec2Model ----
(***************************************************************************)
(* CHAOSGRID (src/chaosgrid/chaosgrid.py): the circular tick Sequencer,   *)
(* the gated-note MidiInstrument, the SoundNode (Voice) callback, the      *)
(* sub-step loop of __main__, the Grid and the PhysicsField, as state      *)
(* machines.                                                               *)
(*                                                                         *)
(*   SpecSeq        one Sequencer driven by arbitrary update(tick) calls   *)
(*   SpecTickByTick one new Sequencer updated with tick = 0, 1, 2, ...     *)
(*   SpecInst       one MidiInstrument driven by arbitrary calls           *)
(*   Spec           the __main__ loop: bodies move, Voices fire, the       *)
(*                  Instrument closes gates                                *)
(*   SpecVariant    the same loop over a second authoring of the cells     *)
(*   SpecGrid       one Grid and its get_cell_at lookups                   *)
(*   SpecPhys       one PhysicsField of two nodes and its updates          *)
(*   SpecCtor       a Sequencer and a PhysicsNode constructed with any     *)
(*                  number, and their first use                            *)
(*   SpecForce      the attraction of get_force at pairs of distances      *)
(*   SpecInstLive   one MidiInstrument under a clock that keeps advancing  *)
(***************************************************************************)
EXTENDS Integers, Sequences, FiniteSets

\* ------------------------------------------------------------------ bounds
MaxLen   == 3   \* largest Sequencer loop length
MaxTick  == 7   \* largest clock tick handed to an update
MaxNotes == 2   \* longest Sequencer note list

Ticks      == 0..MaxTick
Lengths    == 1..MaxLen
\* Note offsets: Note.tick is any integer the scene gives; offsets up to MaxLen
\* include, for every shorter loop, offsets outside [0, length).
Offsets    == 0..MaxLen
NoteLists  == UNION {[1..n -> Offsets] : n \in 0..MaxNotes}

\* ----------------------------------------------------------------- helpers
Min(a, b) == IF a <= b THEN a ELSE b
Max(a, b) == IF a >= b THEN a ELSE b

RECURSIVE Count(_, _)
\* number of occurrences of x in the sequence s
Count(s, x) ==
  IF s = <<>> THEN 0
  ELSE (IF Head(s) = x THEN 1 ELSE 0) + Count(Tail(s), x)

\* number of integers k with a < k <= b and k congruent to t modulo len:
\* how often a clock advancing from a to b passes the offset t
Crossings(a, b, t, len) ==
  Cardinality({k \in (a + 1)..b : k % len = t % len})

VARIABLES
  \* Sequencer (one instance; SpecSeq, SpecTickByTick)
  length,      \* Sequencer.length
  notes,       \* Sequencer.notes: the offsets Note.tick of the stored notes
  last_tick,   \* Sequencer.last_tick
  \* observation of the Sequencer's calls
  call,        \* the last update: [done, before, tick, fired]
  call0,       \* the update before it
  run_start,   \* last_tick when the current run of regular updates began
  run_fires,   \* callbacks per note (index of notes) during that run
  fire_log     \* SpecTickByTick: `fired` of the last `length` updates

seq_vars == <<length, notes, last_tick, call, call0, run_start, run_fires, fire_log>>

\* ---------------------------------------------------------------- Sequencer

\* Sequencer.update, lines 230-231: a tick before last_tick resynchronises
ResyncMut(tick, last) == last
Resync(tick, last) == IF tick < last THEN tick ELSE last

\* Sequencer.update, lines 238-243: the test the scan makes for one note
NoteFiresClosed(last_tick_mod, current_tick, note_tick) ==
  IF last_tick_mod <= current_tick
  THEN last_tick_mod <= note_tick /\ note_tick <= current_tick
  ELSE last_tick_mod <= note_tick \/ note_tick <= current_tick
NoteFiresNoWrap(last_tick_mod, current_tick, note_tick) ==
  last_tick_mod < note_tick /\ note_tick <= current_tick
NoteFires(last_tick_mod, current_tick, note_tick) ==
  IF last_tick_mod <= current_tick
  THEN last_tick_mod < note_tick /\ note_tick <= current_tick
  ELSE last_tick_mod < note_tick \/ note_tick <= current_tick

RECURSIVE ScanFrom(_, _, _, _)
\* the for loop of Sequencer.update over ns from index i on: the indices of the
\* notes the callback is invoked for, in scan order
ScanFrom(ns, i, last_tick_mod, current_tick) ==
  IF i > Len(ns) THEN <<>>
  ELSE (IF NoteFires(last_tick_mod, current_tick, ns[i]) THEN <<i>> ELSE <<>>)
       \o ScanFrom(ns, i + 1, last_tick_mod, current_tick)

\* Sequencer.update(tick) on a Sequencer with the given fields: the callback
\* invocations (indices into ns) it makes
SeqFired(ns, len, last, tick) ==
  LET synced        == Resync(tick, last)
      current_tick  == tick % len
      last_tick_mod == synced % len
  IN  ScanFrom(ns, 1, last_tick_mod, current_tick)

SeqNewLastKept(tick) == last_tick

\* Sequencer.update, line 245
SeqNewLast(tick) == tick

NoCall == [done |-> FALSE, before |-> 0, tick |-> 0, fired |-> <<>>]

\* the last n elements of s (all of s when it is shorter)
LastN(s, n) == IF Len(s) <= n THEN s ELSE SubSeq(s, Len(s) - n + 1, Len(s))

\* An update is regular when the clock did not go back and advanced by less
\* than one loop; a run is a maximal series of regular updates.
Regular(before, tick, len) == tick >= before /\ tick - before < len

\* Sequencer.__init__, lines 223-227 (notes as SoundNode.__init__ line 349 sets them)
SeqInit ==
  /\ length \in Lengths
  /\ notes \in NoteLists
  /\ last_tick = 0
  /\ call = NoCall
  /\ call0 = NoCall
  /\ run_start = 0
  /\ run_fires = [i \in DOMAIN notes |-> 0]
  /\ fire_log = <<>>

\* Sequencer.update(tick), lines 229-245, with a callback that only records
SeqUpdate(tick) ==
  LET fired == SeqFired(notes, length, last_tick, tick)
      reg   == Regular(last_tick, tick, length)
  IN  /\ last_tick' = SeqNewLast(tick)
      /\ call' = [done |-> TRUE, before |-> last_tick, tick |-> tick, fired |-> fired]
      /\ call0' = call
      /\ run_start' = IF reg THEN run_start ELSE tick
      /\ run_fires' = [i \in DOMAIN notes |->
                         IF reg THEN run_fires[i] + Count(fired, i) ELSE 0]
      /\ UNCHANGED <<length, notes>>

\* any caller: update with any tick of the clock's range
Update ==
  \E tick \in Ticks : SeqUpdate(tick) /\ UNCHANGED fire_log

\* the caller of the tick-by-tick property: tick = 0, 1, 2, ...
TickStep ==
  LET tick == IF call.done THEN last_tick + 1 ELSE 0
  IN  /\ tick <= MaxTick
      /\ SeqUpdate(tick)
      /\ fire_log' = LastN(Append(fire_log, SeqFired(notes, length, last_tick, tick)), length)

\* ------------------------------------------------------------ MidiInstrument
MaxGate     == 2   \* largest gate_time
MaxInstTick == 2   \* largest tick handed to MidiInstrument.update alone

\* the (channel, note) keys the callers use: two notes that share the lead
\* channel 0 and one note on another channel
Keys        == {<<0, 0>>, <<0, 1>>, <<1, 0>>}
Channels    == {k[1] : k \in Keys}
GateTimes   == 0..MaxGate                \* gate_time 0 registers no slot
InstTicks   == 0..MaxInstTick
Velocities  == {8}                       \* velocity in tenths: SoundNode sends 0.8

VARIABLES
  playing,         \* MidiInstrument.playing: the slots, in dict insertion order,
                   \* each [channel, note, tick_elapsed, gate_time]
  inst_last_tick,  \* MidiInstrument.last_tick
  sent,            \* the messages output_port.send received in the last operation
  op,              \* the last operation on the Instrument and its arguments
  watch,           \* the (channel, note) key whose gate is observed
  gate_log         \* the observed key since its last gated note_on

inst_vars == <<playing, inst_last_tick, sent, op, watch, gate_log>>

\* int(velocity * 127) clamped to 0..127, line 274; int() truncates toward zero
MidiVelocity(v10) ==
  LET p == v10 * 127
      t == IF p >= 0 THEN p \div 10 ELSE 0 - ((0 - p) \div 10)
  IN  Min(Max(t, 0), 127)

\* mido.Message("note_on", ...), lines 270-275
NoteOnMsg(channel, note, v10) ==
  [type |-> "note_on", channel |-> channel, note |-> note, velocity |-> MidiVelocity(v10)]
\* mido.Message("note_off", channel, note), lines 284 and 296 (mido's default velocity)
NoteOffMsg(channel, note) ==
  [type |-> "note_off", channel |-> channel, note |-> note, velocity |-> 64]

\* the position of key (channel, note) in the slots, 0 when it has none
RECURSIVE SlotIndexFrom(_, _, _, _)
SlotIndexFrom(slots, i, channel, note) ==
  IF i > Len(slots) THEN 0
  ELSE IF slots[i].channel = channel /\ slots[i].note = note THEN i
  ELSE SlotIndexFrom(slots, i + 1, channel, note)
SlotIndex(slots, channel, note) == SlotIndexFrom(slots, 1, channel, note)
HasSlot(slots, channel, note) == SlotIndex(slots, channel, note) > 0

\* self.playing[(channel, note)] = {...}, line 278: a dict assignment keeps the
\* place of a key it already holds and appends a new key
SetSlotStacking(slots, channel, note, gate_time) ==
  Append(slots, [channel |-> channel, note |-> note, tick_elapsed |-> 0, gate_time |-> gate_time])
SetSlot(slots, channel, note, gate_time) ==
  LET new == [channel |-> channel, note |-> note, tick_elapsed |-> 0, gate_time |-> gate_time]
      i   == SlotIndex(slots, channel, note)
  IN  IF i > 0 THEN [slots EXCEPT ![i] = new] ELSE Append(slots, new)

\* An Instrument value: [playing, last_tick, sent]
\* MidiInstrument.__init__, lines 263-266
InstNew == [playing |-> <<>>, last_tick |-> 0, sent |-> <<>>]

InstNoteOnAlways(I, channel, note, gate_time, v10) ==
  [I EXCEPT !.sent = Append(@, NoteOnMsg(channel, note, v10)),
            !.playing = SetSlot(@, channel, note, gate_time)]

\* MidiInstrument.note_on, lines 268-278
InstNoteOn(I, channel, note, gate_time, v10) ==
  [I EXCEPT !.sent = Append(@, NoteOnMsg(channel, note, v10)),
            !.playing = IF gate_time > 0 THEN SetSlot(@, channel, note, gate_time) ELSE @]

RECURSIVE OffScan(_, _)
\* the loop of channel_note_off over list(self.playing.items()), lines 281-286:
\* [playing, sent] after it
OffScanAll(slots, channel) ==
  [playing |-> <<>>,
   sent |-> [i \in 1..Len(slots) |-> NoteOffMsg(slots[i].channel, slots[i].note)]]
OffScan(slots, channel) ==
  IF slots = <<>> THEN [playing |-> <<>>, sent |-> <<>>]
  ELSE LET rest == OffScan(Tail(slots), channel)
           s    == Head(slots)
       IN  IF s.channel = channel
           THEN [playing |-> rest.playing,
                 sent |-> <<NoteOffMsg(channel, s.note)>> \o rest.sent]
           ELSE [playing |-> <<s>> \o rest.playing, sent |-> rest.sent]

\* MidiInstrument.channel_note_off, lines 280-286
InstChannelNoteOff(I, channel) ==
  LET r == OffScan(I.playing, channel)
  IN  [I EXCEPT !.playing = r.playing, !.sent = @ \o r.sent]

\* delta_tick = max(tick - self.last_tick, 0), line 289
DeltaTickNone(tick, last) == 0
DeltaTickSigned(tick, last) == IF tick >= last THEN tick - last ELSE last - tick
DeltaTick(tick, last) == Max(tick - last, 0)

\* the gate test of MidiInstrument.update, line 294
GateExpiredLate(tick_elapsed, gate_time) == tick_elapsed > gate_time
GateExpired(tick_elapsed, gate_time) == tick_elapsed >= gate_time

RECURSIVE GateScan(_, _)
\* the loop of update over list(self.playing.items()), lines 292-298
GateScan(slots, delta_tick) ==
  IF slots = <<>> THEN [playing |-> <<>>, sent |-> <<>>]
  ELSE LET rest == GateScan(Tail(slots), delta_tick)
           s    == [Head(slots) EXCEPT !.tick_elapsed = @ + delta_tick]
       IN  IF GateExpired(s.tick_elapsed, s.gate_time)
           THEN [playing |-> rest.playing,
                 sent |-> <<NoteOffMsg(s.channel, s.note)>> \o rest.sent]
           ELSE [playing |-> <<s>> \o rest.playing, sent |-> rest.sent]

\* MidiInstrument.update, lines 288-298
InstUpdate(I, tick) ==
  LET r == GateScan(I.playing, DeltaTick(tick, I.last_tick))
  IN  [I EXCEPT !.last_tick = tick, !.playing = r.playing, !.sent = @ \o r.sent]

NoOp  == [name |-> "none", channel |-> 0, note |-> 0, gate_time |-> 0, tick |-> 0, before |-> 0]
NoLog == [live |-> FALSE, gate |-> 0, acc |-> 0, offs |-> 0, replaced |-> FALSE]

\* the Instrument the variables hold, about to start an operation
InstNow == [playing |-> playing, last_tick |-> inst_last_tick, sent |-> <<>>]

InstSet(I) ==
  /\ playing' = I.playing
  /\ inst_last_tick' = I.last_tick
  /\ sent' = I.sent

InstInit ==
  /\ playing = InstNew.playing
  /\ inst_last_tick = InstNew.last_tick
  /\ sent = InstNew.sent
  /\ op = NoOp
  /\ watch \in Keys
  /\ gate_log = NoLog

\* a caller's note_on(channel, note, gate_time, velocity)
NoteOnCall ==
  \E key \in Keys, gate_time \in GateTimes, v10 \in Velocities :
   LET channel == key[1]
       note    == key[2]
   IN
    /\ InstSet(InstNoteOn(InstNow, channel, note, gate_time, v10))
    /\ op' = [NoOp EXCEPT !.name = "note_on", !.channel = channel, !.note = note,
                          !.gate_time = gate_time]
    /\ gate_log' =
         IF <<channel, note>> # watch THEN gate_log
         ELSE IF gate_time > 0
              THEN [live |-> TRUE, gate |-> gate_time, acc |-> 0, offs |-> 0,
                    replaced |-> HasSlot(playing, channel, note)]
              ELSE NoLog
    /\ UNCHANGED watch

\* a caller's channel_note_off(channel)
ChannelNoteOffCall ==
  \E channel \in Channels :
    /\ InstSet(InstChannelNoteOff(InstNow, channel))
    /\ op' = [NoOp EXCEPT !.name = "channel_note_off", !.channel = channel]
    /\ gate_log' = IF watch[1] = channel THEN NoLog ELSE gate_log
    /\ UNCHANGED watch

\* a caller's update(tick)
UpdateCall ==
  \E tick \in InstTicks :
    LET I == InstUpdate(InstNow, tick)
        elapsed == IF tick > inst_last_tick THEN tick - inst_last_tick ELSE 0
    IN  /\ InstSet(I)
        /\ op' = [NoOp EXCEPT !.name = "update", !.tick = tick, !.before = inst_last_tick]
        /\ gate_log' =
             IF ~gate_log.live THEN gate_log
             ELSE [gate_log EXCEPT
                     !.acc = Min(@ + elapsed, gate_log.gate),
                     !.offs = Min(@ + Count(I.sent, NoteOffMsg(watch[1], watch[2])), 2)]
        /\ UNCHANGED watch

\* ----------------------------------------- MidiInstrument under a running clock
ClockWrap  == 2   \* inst_last_tick is kept modulo this number
MaxAdvance == 2   \* most ticks the clock advances between two updates

\* the (channel, note) keys in use under the running clock: one on each channel
ClockKeys == {<<0, 0>>, <<1, 0>>}

\* update(tick) with the clock `advance` ticks past the last update's. The
\* clock has no bound: update reads tick only through tick - self.last_tick
\* (line 289), so inst_last_tick holds the tick modulo ClockWrap and op the
\* advance.
ClockUpdate(advance) ==
  LET tick == inst_last_tick + advance
      I    == InstUpdate(InstNow, tick)
  IN  /\ playing' = I.playing
      /\ sent' = I.sent
      /\ inst_last_tick' = I.last_tick % ClockWrap
      /\ op' = [NoOp EXCEPT !.name = "update", !.tick = advance]
      /\ UNCHANGED <<watch, gate_log>>

ClockInit ==
  /\ playing = InstNew.playing
  /\ inst_last_tick = InstNew.last_tick
  /\ sent = InstNew.sent
  /\ op = NoOp
  /\ watch \in ClockKeys
  /\ gate_log = NoLog

\* a caller's note_on, as NoteOnCall, the gate log left alone
ClockNoteOn ==
  \E key \in ClockKeys, gate_time \in GateTimes, v10 \in Velocities :
    /\ InstSet(InstNoteOn(InstNow, key[1], key[2], gate_time, v10))
    /\ op' = [NoOp EXCEPT !.name = "note_on", !.channel = key[1], !.note = key[2],
                          !.gate_time = gate_time]
    /\ UNCHANGED <<watch, gate_log>>

\* a caller's channel_note_off
ClockChannelNoteOff ==
  \E channel \in Channels :
    /\ InstSet(InstChannelNoteOff(InstNow, channel))
    /\ op' = [NoOp EXCEPT !.name = "channel_note_off", !.channel = channel]
    /\ UNCHANGED <<watch, gate_log>>

\* an update within the same clock tick (the sub-steps of lines 1435-1442)
ClockRepeat == ClockUpdate(0)

\* an update after the clock has advanced
ClockAdvance == \E advance \in 1..MaxAdvance : ClockUpdate(advance)

\* --------------------------------------------- SoundNode, SoundNodeList, __main__
MaxClock == 8   \* the clock of __main__ stops advancing at this tick
MaxDelta == 2   \* most ticks the clock advances between two sub-steps

\* The scene of __main__ (lines 1040-1347) scaled down: three of its ten
\* layers, a grid of one row and two columns of unit cells over a field of the
\* grid's size, a loop of 4 ticks for the 1920 of the scene.
Scene == [rows |-> 1, cols |-> 2, cell_width |-> 1, cell_height |-> 1,
          width |-> 2, height |-> 1, loop_length |-> 4]

\* sound_nodes in insertion order, lines 1338-1347 (SoundNodeList.update's order)
VoiceOrder == <<"theme", "kick", "arp">>
Voices     == {VoiceOrder[i] : i \in DOMAIN VoiceOrder}

\* SoundNode(..., sequence=...), lines 1089-1228: the Voice's own sequence
OwnSequence(v) ==
  CASE v = "theme" -> <<0>>
    [] v = "kick"  -> <<0, 2>>
    [] v = "arp"   -> <<0, 1, 2, 3>>

\* SoundNode(..., enable=...), lines 1089-1228
InitialEnable(v) == v \in {"theme", "kick"}

NoCell == <<0 - 1, 0 - 1>>
NoAttr == [present |-> FALSE, notes |-> <<>>, use_global_notes |-> FALSE,
           global_channel |-> 0, global_gate_time |-> 10, arpeggio |-> FALSE,
           has_sequence |-> FALSE, sequence |-> <<>>, index |-> 0]

GetCellInLoose(g, x_pos, y_pos) ==
  LET x == x_pos \div g.cell_width
      y == y_pos \div g.cell_height
  IN  IF x < 0 \/ x > g.cols \/ y < 0 \/ y > g.rows THEN NoCell ELSE <<y, x>>

\* Grid.get_cell_at, lines 188-194, of a Grid g: the (row, column) of the cell
\* returned, or NoCell; // rounds down, as \div does
GetCellIn(g, x_pos, y_pos) ==
  LET x == x_pos \div g.cell_width
      y == y_pos \div g.cell_height
  IN  IF x < 0 \/ x >= g.cols \/ y < 0 \/ y >= g.rows THEN NoCell ELSE <<y, x>>

\* grid.get_cell_at of __main__
GetCellAt(x_pos, y_pos) == GetCellIn(Scene, x_pos, y_pos)

\* cell.attributes[layer] as the scene sets them, lines 1230-1336, with the
\* defaults of the attributes.get calls of play_note and set_key filled in
SceneAttributes(cell, layer) ==
  LET i == cell[1]
      j == cell[2]
  IN  CASE layer = "theme" ->
             [NoAttr EXCEPT !.present = TRUE, !.index = i * Scene.cols + j]
        [] layer = "kick" ->
             [NoAttr EXCEPT !.present = TRUE,
                            !.notes = <<[channel |-> 0, note |-> 36, gate_time |-> 2]>>]
        [] layer = "arp" ->
             [NoAttr EXCEPT !.present = TRUE, !.use_global_notes = TRUE,
                            !.global_channel = 3, !.global_gate_time = 1 * j,
                            !.arpeggio = TRUE, !.has_sequence = TRUE,
                            !.sequence = IF j = 0 THEN <<1>> ELSE <<1, 3>>]
        [] OTHER -> NoAttr

\* A second authoring of the cells, of the kinds Cell.attributes (lines 114-161)
\* and play_note accept and the scene of __main__ does not use: a cell with no
\* entry for a layer, a note list of two notes on channel 0, a sequence
\* override in one cell only, shared notes on the default channel, shared notes
\* for the Voice that sets the key.
VariantAttributes(cell, layer) ==
  LET j == cell[2]
  IN  CASE layer = "theme" /\ j = 0 ->
             [NoAttr EXCEPT !.present = TRUE, !.index = 1, !.use_global_notes = TRUE,
                            !.global_channel = 2, !.global_gate_time = 2]
        [] layer = "kick" /\ j = 0 ->
             [NoAttr EXCEPT !.present = TRUE,
                            !.notes = <<[channel |-> 0, note |-> 36, gate_time |-> 2],
                                        [channel |-> 0, note |-> 38, gate_time |-> 2]>>]
        [] layer = "kick" /\ j = 1 ->
             [NoAttr EXCEPT !.present = TRUE,
                            !.notes = <<[channel |-> 0, note |-> 36, gate_time |-> 2]>>,
                            !.has_sequence = TRUE, !.sequence = <<1>>]
        [] layer = "arp" /\ j = 0 ->
             [NoAttr EXCEPT !.present = TRUE, !.use_global_notes = TRUE,
                            !.global_gate_time = 1]
        [] layer = "arp" /\ j = 1 ->
             [NoAttr EXCEPT !.present = TRUE, !.use_global_notes = TRUE,
                            !.global_channel = 3, !.global_gate_time = 1,
                            !.arpeggio = TRUE]
        [] OTHER -> NoAttr

\* global_notes_list[idx][layer], lines 1075-1086: the chords of the score;
\* idx = 0 - 1 stands for the empty dict a SoundNode is constructed with
GlobalNotes(idx, layer) ==
  IF idx < 0 THEN <<>>
  ELSE CASE layer = "arp"   -> IF idx = 0 THEN <<60, 64>> ELSE <<62>>
         [] layer = "theme" -> IF idx = 0 THEN <<72>> ELSE <<74>>
         [] OTHER           -> <<>>

VARIABLES
  scene,         \* which authoring of the cells grid.cells holds
  calls,         \* the callbacks of the last sub-step and what each one did, in order
  enable,        \* SoundNode.enable of every Voice
  seq_notes,     \* SoundNode.sequencer.notes of every Voice
  seq_last,      \* SoundNode.sequencer.last_tick of every Voice
  global_note,   \* SoundNode.global_note of every Voice: an index of global_notes_list
  body_pos,      \* (int(px), int(py)) of every Voice's PhysicsNode
  now,           \* current_tick of the last sub-step
  running,       \* the main loop's flag
  on_log,        \* per key: the clock tick and gate of the Voice note_on whose slot it holds
  auto_off       \* the automatic NoteOffs of the last sub-step, each with its note_on

main_vars == <<scene, calls, enable, seq_notes, seq_last, global_note, body_pos, now,
               running, on_log, auto_off>>

\* grid.get_cell_at(...).attributes.get(layer), lines 367-375
CellAttributes(cell, layer) ==
  IF scene = "main" THEN SceneAttributes(cell, layer) ELSE VariantAttributes(cell, layer)

\* an entry of calls: play_note entered ("fire"), on_play run ("on_play", with
\* the index it set and the one the Voice held), channel_note_off, note_on
NoEvent == [voice |-> "", name |-> "none", channel |-> 0, note |-> 0, gate_time |-> 0,
            index |-> 0, old |-> 0]

\* the positions int(px), int(py) is sampled at: each cell, the right edge and
\* the bottom edge (past an edge get_cell_at answers as on the far edges, see
\* GridProbes)
BodyPositions == {<<0, 0>>, <<1, 0>>, <<Scene.width, 0>>, <<0, Scene.height>>}

\* set_key, lines 1101-1106, the on_play of the theme Voice; every other Voice
\* keeps the lambda of line 348
OnPlay(S, v, cell) ==
  IF v = "theme"
  THEN LET idx == CellAttributes(cell, v).index
       IN  [S EXCEPT !.ctx = [n \in Voices |-> idx],
                     !.trace = Append(@, [NoEvent EXCEPT !.voice = v, !.name = "on_play",
                                                          !.index = idx, !.old = S.ctx[v]])]
  ELSE S

ResolveNotesStale(attributes, ctx, layer) ==
  IF attributes.use_global_notes
  THEN LET g == GlobalNotes(global_note[layer], layer)
       IN  [k \in DOMAIN g |-> [channel |-> attributes.global_channel, note |-> g[k],
                                gate_time |-> attributes.global_gate_time]]
  ELSE attributes.notes

\* lines 385-395: the notes a fire resolves
ResolveNotes(attributes, ctx, layer) ==
  IF attributes.use_global_notes
  THEN LET g == GlobalNotes(ctx, layer)
       IN  [k \in DOMAIN g |-> [channel |-> attributes.global_channel, note |-> g[k],
                                gate_time |-> attributes.global_gate_time]]
  ELSE attributes.notes

ArpeggiateFirst(attributes, ns) ==
  IF attributes.arpeggio /\ Len(ns) > 1 THEN {<<ns[1]>>} ELSE {ns}

\* lines 398-399: the note lists random.choice can leave
Arpeggiate(attributes, ns) ==
  IF attributes.arpeggio /\ Len(ns) > 1 THEN {<<ns[k]>> : k \in DOMAIN ns} ELSE {ns}

RECURSIVE NoteOns(_, _, _)
\* lines 401-407: note_on for every resolved note, in order
NoteOns(S, ns, event) ==
  IF ns = <<>> THEN S
  ELSE LET n == Head(ns)
       IN  NoteOns([S EXCEPT !.inst = InstNoteOn(@, n.channel, n.note, n.gate_time, 8),
                             !.trace = Append(@, [event EXCEPT !.name = "note_on",
                                                    !.channel = n.channel, !.note = n.note,
                                                    !.gate_time = n.gate_time])],
                   Tail(ns), event)

VoiceAlways(v) == TRUE

NextSequenceSticky(attributes, v) ==
  IF attributes.has_sequence THEN attributes.sequence ELSE seq_notes[v]

\* line 409: attributes.get("sequence", self.sequence)
NextSequence(attributes, v) ==
  IF attributes.has_sequence THEN attributes.sequence ELSE OwnSequence(v)

\* lines 358-359: play_note goes on only for an enabled Voice
VoiceEnabled(v) == enable[v]

ReleaseNone(I) == I

\* line 383: self.instrument.channel_note_off(0)
ReleaseLead(I) == InstChannelNoteOff(I, 0)

\* SoundNode.play_note, lines 357-409: the states one fire of Voice v can leave.
\* S = [inst, ctx, snotes, trace]: the Instrument, every Voice's global_note and
\* sequencer.notes, and the entries of calls made so far in this sub-step.
PlayNote(S, v) ==
  LET cell == GetCellAt(body_pos[v][1], body_pos[v][2])
      me   == [NoEvent EXCEPT !.voice = v]
      S0   == [S EXCEPT !.trace = Append(@, [me EXCEPT !.name = "fire"])]
  IN  IF ~VoiceEnabled(v) THEN {S0}
      ELSE IF cell = NoCell THEN {S0}
      ELSE LET S1         == OnPlay(S0, v, cell)
               attributes == CellAttributes(cell, v)
           IN  IF ~attributes.present THEN {S1}
               ELSE LET S2 == [S1 EXCEPT
                                 !.inst = ReleaseLead(@),
                                 !.trace = Append(@, [me EXCEPT !.name = "channel_note_off"])]
                        ns == ResolveNotes(attributes, S1.ctx[v], v)
                    IN  { [NoteOns(S2, chosen, me) EXCEPT
                             !.snotes[v] = NextSequence(attributes, v)]
                          : chosen \in Arpeggiate(attributes, ns) }

\* self.callback(note), lines 240 and 243, for the Note at offset note_tick: the
\* fire entry of the trace carries the offset in its note field
Callback(S, v, note_tick) ==
  { [T EXCEPT !.trace[Len(S.trace) + 1].note = note_tick] : T \in PlayNote(S, v) }

ScannedListLive(S, v, held) == S.snotes[v]

\* `for note in self.notes`, line 236: the loop runs over the list self.notes
\* named when the loop began (`held`); line 409 binds self.notes to another
\* list and leaves that one as it is
ScannedList(S, v, held) == held

RECURSIVE VoiceScanFrom(_, _, _, _, _, _)
\* the for loop of Sequencer.update, lines 236-243, of Voice v from index i on
VoiceScanFrom(S, v, held, i, last_tick_mod, current_tick) ==
  LET ns == ScannedList(S, v, held)
  IN  IF i > Len(ns) THEN {S}
      ELSE LET after == IF NoteFires(last_tick_mod, current_tick, ns[i])
                        THEN Callback(S, v, ns[i]) ELSE {S}
           IN  UNION { VoiceScanFrom(T, v, held, i + 1, last_tick_mod, current_tick)
                       : T \in after }

RECURSIVE UpdateVoicesIn(_, _, _, _)
\* the loop of SoundNodeList.update, lines 319-320, with SoundNode.update, lines
\* 411-412, over the Voices in the order `order`: every Voice's Sequencer is
\* advanced in turn (Sequencer.update, lines 229-243)
UpdateVoicesIn(order, Ss, i, tick) ==
  IF i > Len(order) THEN Ss
  ELSE LET v             == order[i]
           current_tick  == tick % Scene.loop_length
           last_tick_mod == Resync(tick, seq_last[v]) % Scene.loop_length
       IN  UpdateVoicesIn(order,
                          UNION { VoiceScanFrom(S, v, S.snotes[v], 1, last_tick_mod,
                                                current_tick) : S \in Ss },
                          i + 1, tick)

\* SoundNodeList.update, lines 318-320: self.sound_nodes.values() is the
\* insertion order
UpdateVoices(Ss, i, tick) == UpdateVoicesIn(VoiceOrder, Ss, i, tick)

RECURSIVE LogAfter(_, _, _)
\* on_log after the Instrument calls of trace, made at clock tick `tick`
LogAfter(log, trace, tick) ==
  IF trace = <<>> THEN log
  ELSE LET e == Head(trace)
           l == IF e.name = "channel_note_off"
                THEN {r \in log : r.channel # e.channel}
                ELSE IF e.name = "note_on" /\ e.gate_time > 0
                     THEN {r \in log : ~(r.channel = e.channel /\ r.note = e.note)}
                            \cup {[channel |-> e.channel, note |-> e.note,
                                   tick |-> tick, gate |-> e.gate_time]}
                     ELSE log
       IN  LogAfter(l, Tail(trace), tick)

MainInit ==
  /\ calls = <<>>
  /\ enable = [v \in Voices |-> InitialEnable(v)]
  /\ seq_notes = [v \in Voices |-> OwnSequence(v)]
  /\ seq_last = [v \in Voices |-> 0]
  /\ global_note = [v \in Voices |-> 0 - 1]
  /\ body_pos \in [Voices -> BodyPositions]
  /\ now = 0
  /\ running = TRUE
  /\ on_log = {}
  /\ auto_off = {}
  /\ playing = InstNew.playing
  /\ inst_last_tick = InstNew.last_tick
  /\ sent = InstNew.sent
  /\ op = NoOp /\ watch = <<0, 0>> /\ gate_log = NoLog

\* one pass of the sub-step loop, lines 1435-1442: the clock is read,
\* sound_node_list.update(current_tick), then instrument.update(current_tick)
SubStep ==
  \E tick \in now..Min(now + MaxDelta, MaxClock) :
    \E S \in UpdateVoices({[inst |-> InstNow, ctx |-> global_note,
                            snotes |-> seq_notes, trace |-> <<>>]}, 1, tick) :
      LET I   == InstUpdate([S.inst EXCEPT !.sent = <<>>], tick)
          log == LogAfter(on_log, S.trace, tick)
          off == {r \in log : Count(I.sent, NoteOffMsg(r.channel, r.note)) > 0}
      IN  /\ running
          /\ now' = tick
          /\ seq_last' = [v \in Voices |-> SeqNewLast(tick)]
          /\ seq_notes' = S.snotes
          /\ global_note' = S.ctx
          /\ playing' = I.playing
          /\ inst_last_tick' = I.last_tick
          /\ sent' = S.inst.sent \o I.sent
          /\ auto_off' = {[on |-> r, off_tick |-> tick] : r \in off}
          /\ on_log' = log \ off
          /\ calls' = S.trace
          /\ UNCHANGED <<scene, enable, body_pos, running, op, watch, gate_log>>

\* physics_field.update(dt), line 1428, seen through int(px), int(py): a body
\* moves
PhysicsStep ==
  /\ running
  /\ \E v \in Voices, p \in BodyPositions :
       body_pos' = [body_pos EXCEPT ![v] = p]
  /\ calls' = <<>>
  /\ UNCHANGED <<scene, enable, seq_notes, seq_last, global_note, now, running, on_log, auto_off>>
  /\ UNCHANGED inst_vars

ToggleReleasing ==
  /\ running
  /\ \E i \in 2..Len(VoiceOrder) :
       enable' = [enable EXCEPT ![VoiceOrder[i]] = ~@]
  /\ calls' = <<>>
  /\ InstSet(InstChannelNoteOff(InstNow, 0))
  /\ UNCHANGED <<scene, seq_notes, seq_last, global_note, body_pos, now, running, on_log,
                 auto_off, op, watch, gate_log>>

\* the key handler, lines 1408-1416: keys 1..9 flip the Voice at that index of
\* keys.values(), so the first Voice has no key
Toggle ==
  /\ running
  /\ \E i \in 2..Len(VoiceOrder) :
       enable' = [enable EXCEPT ![VoiceOrder[i]] = ~@]
  /\ calls' = <<>>
  /\ UNCHANGED <<scene, seq_notes, seq_last, global_note, body_pos, now, running, on_log, auto_off>>
  /\ UNCHANGED inst_vars

AllChannelsOffLead(I, channel) == InstChannelNoteOff(I, 0)

RECURSIVE AllChannelsOff(_, _)
\* lines 1462-1463: channel_note_off for channels 0..15
AllChannelsOff(I, channel) ==
  IF channel > 15 THEN I ELSE AllChannelsOff(InstChannelNoteOff(I, channel), channel + 1)

\* pygame.QUIT ends the loop, lines 1406-1407 and 1462-1463
Quit ==
  /\ running
  /\ running' = FALSE
  /\ InstSet(AllChannelsOff(InstNow, 0))
  /\ on_log' = {}
  /\ auto_off' = {}
  /\ calls' = <<>>
  /\ UNCHANGED <<scene, enable, seq_notes, seq_last, global_note, body_pos, now, op, watch,
                 gate_log>>

\* ------------------------------------------------------------------------ Grid
MaxGridSide == 2   \* most rows, and most columns, of a Grid
MaxCellSide == 2   \* greatest cell width, and height

GridSides  == 1..MaxGridSide
CellSides  == 1..MaxCellSide
GridProbes == (0 - 1)..(MaxGridSide * MaxCellSide + 1)

VARIABLES
  grid,     \* a Grid: rows, cols, cell_width, cell_height
  lookup    \* the last get_cell_at: its arguments and the cell it returned

grid_vars == <<grid, lookup>>

\* Grid.__init__, lines 180-186: cells[y][x] = Cell(x * cell_width, y * cell_height, ...)
GridCell(g, y, x) ==
  [row |-> y, col |-> x, x |-> x * g.cell_width, y |-> y * g.cell_height,
   width |-> g.cell_width, height |-> g.cell_height]
GridCells(g) == {GridCell(g, y, x) : y \in 0..(g.rows - 1), x \in 0..(g.cols - 1)}

NoLookup == [done |-> FALSE, x |-> 0, y |-> 0, cell |-> NoCell]

GridInit ==
  /\ grid \in [rows : GridSides, cols : GridSides, cell_width : CellSides,
               cell_height : CellSides]
  /\ lookup = NoLookup

\* a caller's get_cell_at(x_pos, y_pos)
GetCellAtCall ==
  \E x_pos, y_pos \in GridProbes :
    /\ lookup' = [done |-> TRUE, x |-> x_pos, y |-> y_pos,
                  cell |-> GetCellIn(grid, x_pos, y_pos)]
    /\ UNCHANGED grid

\* ------------------------------------------------- PhysicsNode, PhysicsField
MaxUpdates == 3   \* physics_field.update is called this many times

ATTRACTIVE_FORCE_CONST == 3000
MAX_ATTRACTIVE_FORCE   == 80
MIN_DIST_SQ            == 0

\* Lengths, velocities, forces and dt are floats in the program; here they are
\* counted in tenths, and every product or quotient is cut to a whole number of
\* tenths. field_size: line 1025; mass: line 1357; max_velocity: line 23;
\* the damping 0.99: lines 27-28.
Field == [px |-> 0, py |-> 0, width |-> 960, height |-> 960, unit |-> 10,
          mass |-> 10, max_velocity |-> 15, damping |-> 99, per |-> 100]

\* a quotient cut toward zero, b # 0
TDiv(a, b) ==
  LET n == IF b < 0 THEN 0 - a ELSE a
      d == IF b < 0 THEN 0 - b ELSE b
  IN  IF n >= 0 THEN n \div d ELSE 0 - ((0 - n) \div d)

RECURSIVE IsqrtIn(_, _, _)
\* the greatest r in lo..hi with r * r <= n
IsqrtIn(n, lo, hi) ==
  IF lo >= hi THEN lo
  ELSE LET mid == (lo + hi + 1) \div 2
       IN  IF mid * mid <= n THEN IsqrtIn(n, mid, hi) ELSE IsqrtIn(n, lo, mid - 1)

\* math.sqrt, line 85, cut to a whole number
Isqrt(n) == IsqrtIn(n, 0, Min(n, 46340))

Clamp(v, lo, hi) == Min(Max(v, lo), hi)

\* the positions PhysicsNodes are created at (lines 1352-1361: random.randint(0,
\* field_size) for x and for y), sampled, and the ticks dt is computed from
StartCoords == {0, 3, Field.width}
PhysTicks   == {0, 39, 240}

VARIABLES
  nodes,     \* physics_field.nodes in order: px, py, vx, vy of every PhysicsNode, in tenths
  updates    \* how many times physics_field.update has run

phys_vars == <<nodes, updates>>

\* dt of the main loop, lines 1421-1423, in tenths
DtOf(current_tick) ==
  LET m == Min((current_tick % 480) + 1, 480 - (current_tick % 480) + 1)
  IN  Field.unit + Min(TDiv(40 * Field.unit, m), 10 * Field.unit)

\* attractive_force, lines 90-92, for a squared distance in squared tenths
AttractiveForce(dist_sq) ==
  Min(TDiv(ATTRACTIVE_FORCE_CONST * Field.unit * Field.unit * Field.unit, dist_sq),
      MAX_ATTRACTIVE_FORCE * Field.unit)

RECURSIVE ForceFrom(_, _, _, _)
\* PhysicsField.get_force, lines 74-97: the loop over the other nodes from
\* index k on, f the force summed so far
ForceFrom(ns, i, k, f) ==
  IF k > Len(ns) THEN f
  ELSE LET dx      == ns[k].px - ns[i].px
           dy      == ns[k].py - ns[i].py
           dist_sq == dx * dx + dy * dy
           dist    == Isqrt(dist_sq)
       IN  IF k = i \/ dist_sq <= MIN_DIST_SQ * Field.unit * Field.unit
           THEN ForceFrom(ns, i, k + 1, f)
           ELSE ForceFrom(ns, i, k + 1,
                          [fx |-> f.fx + TDiv(AttractiveForce(dist_sq) * dx, dist),
                           fy |-> f.fy + TDiv(AttractiveForce(dist_sq) * dy, dist)])

GetForce(ns, i) == ForceFrom(ns, i, 1, [fx |-> 0, fy |-> 0])

\* PhysicsNode.apply_force, lines 23-30, of a node of mass `mass` # 0
ApplyForceOf(n, f, mass) ==
  LET top == Field.max_velocity * Field.unit
      vx  == TDiv((n.vx + TDiv(f.fx, mass)) * Field.damping, Field.per)
      vy  == TDiv((n.vy + TDiv(f.fy, mass)) * Field.damping, Field.per)
  IN  [n EXCEPT !.vx = Clamp(vx, 0 - top, top), !.vy = Clamp(vy, 0 - top, top)]

\* apply_force of the nodes of __main__ (mass=10.0, line 1357)
ApplyForce(n, f) == ApplyForceOf(n, f, Field.mass)

\* PhysicsNode.apply_velocity, lines 32-34
ApplyVelocity(n, dt) ==
  [n EXCEPT !.px = n.px + TDiv(n.vx * dt, Field.unit),
            !.py = n.py + TDiv(n.vy * dt, Field.unit)]

\* PhysicsField.check_boundary, lines 99-111: four tests in turn
CheckBoundary(n) ==
  LET left   == Field.px * Field.unit
      right  == (Field.px + Field.width) * Field.unit
      top    == Field.py * Field.unit
      bottom == (Field.py + Field.height) * Field.unit
      n1 == IF n.px < left    THEN [n  EXCEPT !.px = left,   !.vx = 0 - n.vx]  ELSE n
      n2 == IF n1.px > right  THEN [n1 EXCEPT !.px = right,  !.vx = 0 - n1.vx] ELSE n1
      n3 == IF n2.py < top    THEN [n2 EXCEPT !.py = top,    !.vy = 0 - n2.vy] ELSE n2
      n4 == IF n3.py > bottom THEN [n3 EXCEPT !.py = bottom, !.vy = 0 - n3.vy] ELSE n3
  IN  n4

\* self.nodes.values(), lines 67 and 70: the nodes in the order they were added
NodeOrder(ns) == [k \in DOMAIN ns |-> k]

RECURSIVE ForcePassIn(_, _, _)
\* Grid(screen_width, screen_height, field_size // 4, field_size // 4, 4, 4),
\* line 1040: four rows and columns of cells that cover the field
MainGrid == [rows |-> 4, cols |-> 4,
             cell_width |-> Field.width \div 4, cell_height |-> Field.height \div 4]

\* grid.get_cell_at(int(physics_node.px), int(physics_node.py)), line 368, for
\* a node of the field
CellUnder(n) == GetCellIn(MainGrid, TDiv(n.px, Field.unit), TDiv(n.py, Field.unit))

\* the first loop of PhysicsField.update, lines 67-69, over the nodes in `order`
\* from its k-th on: get_force reads the nodes as they are by then, apply_force
\* writes the node in place
ForcePassIn(order, ns, k) ==
  IF k > Len(order) THEN ns
  ELSE LET i == order[k]
       IN  ForcePassIn(order, [ns EXCEPT ![i] = ApplyForce(ns[i], GetForce(ns, i))], k + 1)

RECURSIVE MovePassIn(_, _, _, _)
\* the second loop, lines 70-72: check_boundary, then apply_velocity, in place
MovePassIn(order, ns, dt, k) ==
  IF k > Len(order) THEN ns
  ELSE LET i == order[k]
       IN  MovePassIn(order, [ns EXCEPT ![i] = ApplyVelocity(CheckBoundary(ns[i]), dt)],
                      dt, k + 1)

ForcePass(ns)    == ForcePassIn(NodeOrder(ns), ns, 1)
MovePass(ns, dt) == MovePassIn(NodeOrder(ns), ns, dt, 1)

RECURSIVE InterleavedIn(_, _, _, _)
InterleavedIn(order, ns, dt, k) ==
  IF k > Len(order) THEN ns
  ELSE LET i == order[k]
           n == ApplyForce(ns[i], GetForce(ns, i))
       IN  InterleavedIn(order, [ns EXCEPT ![i] = ApplyVelocity(CheckBoundary(n), dt)],
                         dt, k + 1)

FieldUpdateInterleaved(ns, dt) == InterleavedIn(NodeOrder(ns), ns, dt, 1)

\* PhysicsField.update, lines 66-72
FieldUpdate(ns, dt) == MovePass(ForcePass(ns), dt)

\* PhysicsNode.__init__, lines 15-18, for the two of the nodes of lines 1352-1361
PhysInit ==
  /\ nodes \in [1..2 -> [px : {c * Field.unit : c \in StartCoords},
                         py : {c * Field.unit : c \in StartCoords},
                         vx : {0}, vy : {0}]]
  /\ updates = 0

\* physics_field.update(dt), line 1428
PhysicsUpdate ==
  /\ updates < MaxUpdates
  /\ \E current_tick \in PhysTicks : nodes' = FieldUpdate(nodes, DtOf(current_tick))
  /\ updates' = updates + 1

\* ------------------------------------------- construction with any number
MaxConfig   == 2   \* greatest loop length, and mass, an object is constructed with
MaxCtorTick == 3   \* greatest tick a constructed Sequencer is updated with

ConfigValues == (0 - 1)..MaxConfig
CtorTicks    == 0..MaxCtorTick
CtorForces   == {0 - 100, 0, 100}   \* fx in tenths

VARIABLES
  built_seq,    \* a Sequencer as constructed: length, last_tick, the exception an update raised
  built_node    \* a PhysicsNode as constructed: mass, vx, vy, the exception apply_force raised

ctor_vars == <<built_seq, built_node>>

NotBuilt == [made |-> FALSE, number |-> 1, last_tick |-> 0, vx |-> 0, vy |-> 0, error |-> ""]

CtorInit == built_seq = NotBuilt /\ built_node = NotBuilt

\* Sequencer.__init__, lines 223-227: length is stored as given
NewSequencer ==
  \E loop_length \in ConfigValues :
    /\ built_seq' = [NotBuilt EXCEPT !.made = TRUE, !.number = loop_length]
    /\ UNCHANGED built_node

\* PhysicsNode.__init__, lines 12-21: mass is stored as given
NewPhysicsNode ==
  \E mass \in ConfigValues :
    /\ built_node' = [NotBuilt EXCEPT !.made = TRUE, !.number = mass]
    /\ UNCHANGED built_seq

\* Sequencer.update, lines 229-245, of the Sequencer as constructed (notes = []):
\* tick % self.length raises ZeroDivisionError when length is 0, after the
\* assignment of lines 230-231
BuiltSequencerUpdate ==
  \E tick \in CtorTicks :
    /\ built_seq.made /\ built_seq.error = ""
    /\ built_seq' =
         IF built_seq.number = 0
         THEN [built_seq EXCEPT !.last_tick = Resync(tick, @),
                                !.error = "ZeroDivisionError"]
         ELSE [built_seq EXCEPT !.last_tick = SeqNewLast(tick)]
    /\ UNCHANGED built_node

\* PhysicsNode.apply_force, lines 23-30: fx / self.mass raises
\* ZeroDivisionError when mass is 0, before any assignment
BuiltNodeApplyForce ==
  \E fx \in CtorForces :
    /\ built_node.made /\ built_node.error = ""
    /\ built_node' =
         IF built_node.number = 0
         THEN [built_node EXCEPT !.error = "ZeroDivisionError"]
         ELSE LET n == ApplyForceOf([vx |-> built_node.vx, vy |-> built_node.vy],
                                    [fx |-> fx, fy |-> 0], built_node.number)
              IN  [built_node EXCEPT !.vx = n.vx, !.vy = n.vy]
    /\ UNCHANGED built_seq

\* ------------------------------------------ the attraction between two nodes
MaxDistSq == 40   \* greatest squared distance the attraction is measured at

DistSqs == 1..MaxDistSq

VARIABLES
  measured    \* the attraction at two squared distances, the nearer first

force_vars == <<measured>>

AttractiveForceUncapped(dist_sq) == [num |-> ATTRACTIVE_FORCE_CONST, den |-> dist_sq]

\* attractive_force, lines 90-92, exactly, as a fraction num / den:
\* min(ATTRACTIVE_FORCE_CONST / dist_sq, MAX_ATTRACTIVE_FORCE)
AttractiveForceExact(dist_sq) ==
  IF ATTRACTIVE_FORCE_CONST < MAX_ATTRACTIVE_FORCE * dist_sq
  THEN [num |-> ATTRACTIVE_FORCE_CONST, den |-> dist_sq]
  ELSE [num |-> MAX_ATTRACTIVE_FORCE, den |-> 1]

\* a > b for fractions of positive denominators
Greater(a, b) == a.num * b.den > b.num * a.den

NotMeasured == [done |-> FALSE, near |-> 1, far |-> 1,
                f_near |-> [num |-> 0, den |-> 1], f_far |-> [num |-> 0, den |-> 1]]

ForceInit == measured = NotMeasured

\* get_force for two nodes at two distances, the squared distances (line 84)
\* near < far
MeasureForces ==
  \E near, far \in DistSqs :
    /\ near < far
    /\ measured' = [done |-> TRUE, near |-> near, far |-> far,
                    f_near |-> AttractiveForceExact(near),
                    f_far |-> AttractiveForceExact(far)]

\* ------------------------------------------------------------ specifications
vars == <<seq_vars, inst_vars, main_vars, grid_vars, phys_vars, ctor_vars, force_vars>>

\* no Grid lookup and no PhysicsField are part of this specification
GridIdle == grid = <<>> /\ lookup = NoLookup
PhysIdle == nodes = <<>> /\ updates = 0
CtorIdle == built_seq = NotBuilt /\ built_node = NotBuilt
ForceIdle == measured = NotMeasured
rest_vars == <<grid_vars, phys_vars, ctor_vars, force_vars>>
RestIdle  == GridIdle /\ PhysIdle /\ CtorIdle /\ ForceIdle

\* the Sequencer of SpecSeq is not part of this specification
SeqIdle ==
  /\ length = 1 /\ notes = <<>> /\ last_tick = 0
  /\ call = NoCall /\ call0 = NoCall
  /\ run_start = 0 /\ run_fires = <<>> /\ fire_log = <<>>

\* the Instrument is not part of this specification
InstIdle ==
  /\ playing = <<>> /\ inst_last_tick = 0 /\ sent = <<>>
  /\ op = NoOp /\ watch = <<0, 0>> /\ gate_log = NoLog

\* the Voices and the main loop are not part of this specification
MainIdle ==
  /\ scene = "none" /\ calls = <<>>
  /\ enable = <<>> /\ seq_notes = <<>> /\ seq_last = <<>> /\ global_note = <<>>
  /\ body_pos = <<>> /\ now = 0 /\ running = FALSE
  /\ on_log = {} /\ auto_off = {}

InitSeq == SeqInit /\ InstIdle /\ MainIdle /\ RestIdle
NextSeq == Update /\ UNCHANGED <<inst_vars, main_vars, rest_vars>>
SpecSeq == InitSeq /\ [][NextSeq]_vars

NextTickByTick == TickStep /\ UNCHANGED <<inst_vars, main_vars, rest_vars>>
SpecTickByTick == InitSeq /\ [][NextTickByTick]_vars

InitInst == InstInit /\ SeqIdle /\ MainIdle /\ RestIdle
NextInst ==
  \/ NoteOnCall /\ UNCHANGED <<seq_vars, main_vars, rest_vars>>
  \/ ChannelNoteOffCall /\ UNCHANGED <<seq_vars, main_vars, rest_vars>>
  \/ UpdateCall /\ UNCHANGED <<seq_vars, main_vars, rest_vars>>
SpecInst == InitInst /\ [][NextInst]_vars

\* the Instrument under a clock that keeps advancing: an update with a later
\* tick is never put off forever
NextInstLive ==
  \/ ClockNoteOn /\ UNCHANGED <<seq_vars, main_vars, rest_vars>>
  \/ ClockChannelNoteOff /\ UNCHANGED <<seq_vars, main_vars, rest_vars>>
  \/ ClockRepeat /\ UNCHANGED <<seq_vars, main_vars, rest_vars>>
  \/ ClockAdvance /\ UNCHANGED <<seq_vars, main_vars, rest_vars>>
InitInstLive == ClockInit /\ SeqIdle /\ MainIdle /\ RestIdle
SpecInstLive ==
  /\ InitInstLive /\ [][NextInstLive]_vars
  /\ WF_vars(ClockAdvance /\ UNCHANGED <<seq_vars, main_vars, rest_vars>>)

\* __main__: the scene, then the main loop until pygame.QUIT
Init == MainInit /\ scene = "main" /\ SeqIdle /\ RestIdle
Next ==
  \/ PhysicsStep /\ UNCHANGED <<seq_vars, rest_vars>>
  \/ Toggle /\ UNCHANGED <<seq_vars, rest_vars>>
  \/ SubStep /\ UNCHANGED <<seq_vars, rest_vars>>
  \/ Quit /\ UNCHANGED <<seq_vars, rest_vars>>
Spec == Init /\ [][Next]_vars

\* the main loop over the second authoring of the cells
InitVariant == MainInit /\ scene = "variant" /\ SeqIdle /\ RestIdle
SpecVariant == InitVariant /\ [][Next]_vars

\* a Grid and its lookups
InitGrid ==
  GridInit /\ SeqIdle /\ InstIdle /\ MainIdle /\ PhysIdle /\ CtorIdle /\ ForceIdle
NextGrid ==
  GetCellAtCall /\ UNCHANGED <<seq_vars, inst_vars, main_vars, phys_vars, ctor_vars, force_vars>>
SpecGrid == InitGrid /\ [][NextGrid]_vars

\* a PhysicsField of two nodes and its updates
InitPhys ==
  PhysInit /\ SeqIdle /\ InstIdle /\ MainIdle /\ GridIdle /\ CtorIdle /\ ForceIdle
NextPhys ==
  PhysicsUpdate /\ UNCHANGED <<seq_vars, inst_vars, main_vars, grid_vars, ctor_vars, force_vars>>
SpecPhys == InitPhys /\ [][NextPhys]_vars

\* a Sequencer and a PhysicsNode constructed with any number, then used
InitCtor ==
  CtorInit /\ SeqIdle /\ InstIdle /\ MainIdle /\ GridIdle /\ PhysIdle /\ ForceIdle
NextCtor ==
  \/ NewSequencer /\ UNCHANGED <<seq_vars, inst_vars, main_vars, grid_vars, phys_vars, force_vars>>
  \/ NewPhysicsNode /\ UNCHANGED <<seq_vars, inst_vars, main_vars, grid_vars, phys_vars, force_vars>>
  \/ BuiltSequencerUpdate
       /\ UNCHANGED <<seq_vars, inst_vars, main_vars, grid_vars, phys_vars, force_vars>>
  \/ BuiltNodeApplyForce
       /\ UNCHANGED <<seq_vars, inst_vars, main_vars, grid_vars, phys_vars, force_vars>>
SpecCtor == InitCtor /\ [][NextCtor]_vars

\* the attraction of get_force at pairs of distances
InitForce ==
  ForceInit /\ SeqIdle /\ InstIdle /\ MainIdle /\ GridIdle /\ PhysIdle /\ CtorIdle
NextForce ==
  MeasureForces
    /\ UNCHANGED <<seq_vars, inst_vars, main_vars, grid_vars, phys_vars, ctor_vars>>
SpecForce == InitForce /\ [][NextForce]_vars
\* ------------------------------------------------------------------- claims

\* t lies in the circular open-closed arc (a, c] of the loop
ArcOpenClosed(a, c, t) ==
  IF a <= c THEN a < t /\ t <= c ELSE t > a \/ t <= c

\* callbacks for note i in the last update
FiredNow(i) == Count(call.fired, i)

\* C1 as stated: over updates with non-decreasing ticks and a delta of at most
\* loop_length (a delta of exactly loop_length included), a note with offset
\* in [0, loop_length) is fired once for each value congruent to its offset that
\* the tick passes.
C1_Original ==
  (call.done /\ call.tick >= call.before /\ call.tick - call.before <= length) =>
    \A i \in DOMAIN notes : notes[i] < length =>
      FiredNow(i) = Crossings(call.before, call.tick, notes[i], length)

\* C1 as amended: the same with every delta strictly less than loop_length, for
\* one update and for a whole run of such updates however it is split.
C1_OncePerPassage ==
  /\ (call.done /\ Regular(call.before, call.tick, length)) =>
       \A i \in DOMAIN notes : notes[i] < length =>
         FiredNow(i) = Crossings(call.before, call.tick, notes[i], length)
  /\ \A i \in DOMAIN notes : notes[i] < length =>
       run_fires[i] = Crossings(run_start, last_tick, notes[i], length)

\* a run from tick 0 over two loops of the longest length, whose last update
\* advanced by loop_length - 1 and fired the note at offset 0 a second time
C1_Witness ==
  /\ length = MaxLen /\ run_start = 0 /\ last_tick = 2 * length
  /\ call.tick - call.before = length - 1
  /\ \E i \in DOMAIN notes : notes[i] = 0 /\ run_fires[i] = 2 /\ FiredNow(i) = 1

\* callbacks for note i in the updates of the last `length` ticks
RECURSIVE LogCount(_, _)
LogCount(log, i) ==
  IF log = <<>> THEN 0 ELSE Count(Head(log), i) + LogCount(Tail(log), i)

\* C2 as stated: a new Sequencer updated with tick = 0, 1, 2, ... invokes the
\* callback for a note at offset T in [0, L) exactly once in every window of L
\* consecutive ticks.
C2_Original ==
  Len(fire_log) = length =>
    \A i \in DOMAIN notes : notes[i] < length => LogCount(fire_log, i) = 1

\* C2 as amended: for L >= 2, exactly once in every window of L consecutive
\* ticks that starts at tick 1 or later; in the window of ticks 0..L-1 a note
\* at offset 0 is not fired and every other note is fired once; with L = 1 the
\* callback is never invoked.
C2_OncePerWindow ==
  Len(fire_log) = length =>
    \A i \in DOMAIN notes : notes[i] < length =>
      LogCount(fire_log, i) =
        IF length = 1 \/ (last_tick = length - 1 /\ notes[i] = 0) THEN 0 ELSE 1

\* a full window well after the first loop, with a note at offset 0
C2_Witness ==
  /\ length = MaxLen /\ Len(fire_log) = length /\ last_tick = 2 * length + 1
  /\ \E i \in DOMAIN notes : notes[i] = 0 /\ LogCount(fire_log, i) = 1

\* C3 as stated: update(tick) invokes the callback for a note at offset t once
\* if t lies in the arc (previous last_tick mod L, tick mod L], and not at all
\* otherwise.
C3_Original ==
  call.done =>
    \A i \in DOMAIN notes :
      FiredNow(i) = IF ArcOpenClosed(call.before % length, call.tick % length, notes[i])
                    THEN 1 ELSE 0

\* C3 as amended: the same when tick is not smaller than the previous
\* last_tick; when it is smaller, no callback is invoked.
C3_ArcRule ==
  call.done =>
    \A i \in DOMAIN notes :
      FiredNow(i) = IF /\ call.tick >= call.before
                       /\ ArcOpenClosed(call.before % length, call.tick % length, notes[i])
                    THEN 1 ELSE 0

\* an update whose arc wraps past the end of the loop, firing one note and
\* not another
C3_Witness ==
  /\ call.done /\ call.tick >= call.before
  /\ call.before % length > call.tick % length
  /\ \E i, j \in DOMAIN notes : FiredNow(i) = 1 /\ FiredNow(j) = 0

\* the last two updates went a -> b -> c with a <= b <= c
SubStepped ==
  /\ call0.done /\ call.done
  /\ call0.before <= call0.tick /\ call.before <= call.tick

\* the callbacks of update(b) and update(c) together equal those of a single
\* update(c) made from last_tick = a
SameAsDirect ==
  \A i \in DOMAIN notes :
    Count(call0.fired, i) + FiredNow(i)
      = Count(SeqFired(notes, length, call0.before, call.tick), i)

\* C4 as stated: sub-stepping a -> b -> c with c - a <= loop_length fires the
\* same multiset of notes as the single step a -> c.
C4_Original ==
  (SubStepped /\ call.tick - call0.before <= length) => SameAsDirect

\* C4 as amended: the same with c - a strictly less than loop_length.
C4_SubStepInvariant ==
  (SubStepped /\ call.tick - call0.before < length) => SameAsDirect

\* two sub-steps a < b < c spanning loop_length - 1 ticks, the first of which
\* wraps, and each of which fires a note
C4_Witness ==
  /\ SubStepped /\ call0.before < call0.tick /\ call.before < call.tick
  /\ call.tick - call0.before = length - 1
  /\ call0.before % length > call0.tick % length
  /\ call0.fired # <<>> /\ call.fired # <<>>

\* C5: an update with a tick smaller than that of the previous call invokes no
\* callback and leaves last_tick at the new tick; the update after it fires
\* only the notes in the arc that starts at the new tick.
C5_ResyncSilent ==
  /\ (call.done /\ call.tick < call.before) =>
       call.fired = <<>> /\ last_tick = call.tick
  /\ (call0.done /\ call0.tick < call0.before /\ call.done /\ call.tick >= call.before) =>
       \A i \in DOMAIN notes :
         FiredNow(i) = IF ArcOpenClosed(call0.tick % length, call.tick % length, notes[i])
                       THEN 1 ELSE 0

\* the clock went back over a note a retroactive scan would have fired, and
\* the next update fired a note from the new tick on
C5_Witness ==
  /\ call0.done /\ call0.tick < call0.before
  /\ \E i \in DOMAIN notes :
       ArcOpenClosed(call0.before % length, call0.tick % length, notes[i])
  /\ call.done /\ call.tick > call.before /\ call.fired # <<>>

\* C6: after note_on(c, n, g, v) with g > 0 and no later note_on or
\* channel_note_off for the key, the updates emit no NoteOff(c, n) while the
\* elapsed ticks accumulated since the note_on are below g, and exactly one
\* from the first update at which they reach g.
C6_GateExact ==
  gate_log.live =>
    /\ gate_log.offs = IF gate_log.acc >= gate_log.gate THEN 1 ELSE 0
    /\ HasSlot(playing, watch[1], watch[2]) <=> gate_log.acc < gate_log.gate

\* the longest gate has expired, its NoteOff was emitted by an earlier update
\* and the last update emitted nothing more
C6_Witness ==
  /\ gate_log.live /\ gate_log.gate = MaxGate /\ gate_log.acc >= gate_log.gate
  /\ gate_log.offs = 1 /\ op.name = "update" /\ op.tick > op.before /\ sent = <<>>

\* C8: at most one slot per (channel, note) key; a note_on with gate > 0
\* leaves the key with one slot of elapsed 0 and the new gate and emits only
\* the NoteOn, also when it replaces a slot; the replacing slot is followed by
\* one automatic NoteOff timed from the replacing note_on.
C8_LastWriterWins ==
  /\ \A i, j \in DOMAIN playing :
       (playing[i].channel = playing[j].channel /\ playing[i].note = playing[j].note)
         => i = j
  /\ (op.name = "note_on" /\ op.gate_time > 0) =>
       /\ Len(sent) = 1 /\ sent[1].type = "note_on"
       /\ sent[1].channel = op.channel /\ sent[1].note = op.note
       /\ \E i \in DOMAIN playing :
            playing[i] = [channel |-> op.channel, note |-> op.note,
                          tick_elapsed |-> 0, gate_time |-> op.gate_time]
  /\ (gate_log.live /\ gate_log.replaced) =>
       gate_log.offs = IF gate_log.acc >= gate_log.gate THEN 1 ELSE 0

\* a slot that replaced another has expired with its single NoteOff
C8_Witness ==
  /\ gate_log.live /\ gate_log.replaced /\ gate_log.gate = MaxGate
  /\ gate_log.offs = 1 /\ op.name = "update" /\ Len(sent) = 1

\* C9: channel_note_off(c) emits one NoteOff(c, n) for every slot (c, n)
\* registered at the call, whatever its elapsed time, and nothing else, and
\* leaves no slot with channel c.
C9_ChannelRelease ==
  [][op'.name = "channel_note_off" =>
       /\ \A k \in Keys :
            Count(sent', NoteOffMsg(k[1], k[2]))
              = IF k[1] = op'.channel /\ HasSlot(playing, k[1], k[2]) THEN 1 ELSE 0
       /\ \A i \in DOMAIN sent' : sent'[i].type = "note_off"
       /\ \A i \in DOMAIN playing' : playing'[i].channel # op'.channel
    ]_vars

\* a release of two slots of one channel that left a slot of another channel
C9_Witness ==
  /\ op.name = "channel_note_off" /\ Len(sent) = 2 /\ Len(playing) = 1
  /\ playing[1].tick_elapsed > 0

\* C10: update(tick) adds max(tick - last_update_tick, 0) to the elapsed time
\* of every slot (releasing those that reach their gate); with a tick smaller
\* than the previous one no slot changes, no NoteOff is emitted, and the last
\* update tick becomes the new tick.
C10_ElapsedNeverNegative ==
  [][op'.name = "update" =>
       LET d == IF op'.tick > inst_last_tick THEN op'.tick - inst_last_tick ELSE 0
       IN  /\ inst_last_tick' = op'.tick
           /\ Len(playing') <= Len(playing)
           /\ \A i \in DOMAIN playing :
                LET s   == playing[i]
                    j   == SlotIndex(playing', s.channel, s.note)
                    off == Count(sent', NoteOffMsg(s.channel, s.note))
                IN  IF s.tick_elapsed + d >= s.gate_time
                    THEN j = 0 /\ off = 1
                    ELSE /\ j > 0 /\ off = 0
                         /\ playing'[j] = [s EXCEPT !.tick_elapsed = @ + d]
           /\ (op'.tick < inst_last_tick => playing' = playing /\ sent' = <<>>)
    ]_vars

\* an update with a tick before the previous one, with a slot part-way
\* through its gate
C10_Witness ==
  /\ op.name = "update" /\ op.tick < op.before
  /\ \E i \in DOMAIN playing : playing[i].tick_elapsed > 0
\* C7: in the order of the main loop's sub-step, a note a Voice turns on at
\* clock tick t with gate time g > 0 stays on for g ticks: unless it is
\* force-released or replaced, its automatic NoteOff is not emitted before the
\* clock tick reaches t + g.
C7_GateFromNoteOn ==
  \A r \in auto_off : r.off_tick >= r.on.tick + r.on.gate

\* ------------------------------------------------- claims about Voice fires
\* the cell under Voice v's body, its attributes there, and whether a fire of v
\* goes on to the Instrument
CellOf(v) == GetCellAt(body_pos[v][1], body_pos[v][2])
AttrOf(v) == IF CellOf(v) = NoCell THEN NoAttr ELSE CellAttributes(CellOf(v), v)
Plays(v)  == enable[v] /\ AttrOf(v).present

\* the entries of calls made by the fire entered at calls[i]
FireEnd(i) ==
  LET later == {k \in (i + 1)..Len(calls) : calls[k].name = "fire"}
  IN  IF later = {} THEN Len(calls) + 1 ELSE CHOOSE k \in later : \A m \in later : k <= m
FireCalls(i) == SubSeq(calls, i + 1, FireEnd(i) - 1)
IsNoteOn(e)  == e.name = "note_on"
FireNoteOns(i) == SelectSeq(FireCalls(i), IsNoteOn)

\* the index of global_notes_list Voice v held once the fire entered at
\* calls[i] had run its on_play
CtxAt(i, v) ==
  LET before == {k \in 1..Min(i + 1, Len(calls)) : calls[k].name = "on_play"}
      after  == {k \in (i + 2)..Len(calls) : calls[k].name = "on_play"}
  IN  IF before # {} THEN calls[CHOOSE k \in before : \A m \in before : k >= m].index
      ELSE IF after # {} THEN calls[CHOOSE k \in after : \A m \in after : k <= m].old
      ELSE global_note[v]

SameNote(e, n) == e.channel = n.channel /\ e.note = n.note /\ e.gate_time = n.gate_time

\* C11: with every note_on coming from Voice fires, the Instrument holds at
\* most one gated slot on channel 0 after a fire, whatever note list or shared
\* notes the fire resolved.
C11_LeadMonophonic ==
  Cardinality({k \in DOMAIN playing : playing[k].channel = 0}) <= 1

\* C12: in every step a Voice that is disabled has its Sequencer advanced to
\* the tick like every other Voice, its callbacks do nothing but return (no
\* on_play, no Instrument call), its note list stays, and when only disabled
\* Voices fired no note_on is sent, no slot appears and no context changes.
C12_DisabledSilent ==
  [][ /\ \A v \in Voices : ~enable[v] =>
           /\ seq_last'[v] = now'
           /\ seq_notes'[v] = seq_notes[v]
           /\ \A i \in DOMAIN calls' : calls'[i].voice = v => calls'[i].name = "fire"
      /\ (calls' # <<>> /\ \A i \in DOMAIN calls' : ~enable[calls'[i].voice]) =>
           /\ \A k \in DOMAIN sent' : sent'[k].type # "note_on"
           /\ \A k \in DOMAIN playing' :
                HasSlot(playing, playing'[k].channel, playing'[k].note)
           /\ global_note' = global_note ]_vars

\* a disabled arp, over a cell with attributes for it, was called back in the
\* last sub-step while an enabled Voice played
C12_Witness ==
  /\ ~enable["arp"] /\ AttrOf("arp").present
  /\ \E i \in DOMAIN calls : calls[i].voice = "arp"
  /\ \E i \in DOMAIN calls : calls[i].name = "note_on"

\* C13: a step that flips a Voice's enable flag changes nothing else: no
\* message, no slot, no Sequencer last_tick or note list, no context; the flag
\* counts from the next callback on, which acts only for a Voice enabled then.
C13_ToggleOnlyFlag ==
  [][ /\ enable' # enable =>
           /\ UNCHANGED <<playing, inst_last_tick, sent, seq_last, seq_notes, global_note,
                          body_pos, now>>
           /\ calls' = <<>>
      /\ \A i \in DOMAIN calls' : calls'[i].name # "fire" => enable'[calls'[i].voice] ]_vars

\* kick was switched off while the note it played is still sounding
C13_Witness ==
  ~enable["kick"] /\ HasSlot(playing, 0, 36) /\ calls = <<>> /\ running

\* C14: a fire of an enabled Voice whose body is over no cell, or over a cell
\* with no attributes for the Voice's layer, does nothing: no on_play, no
\* Instrument call.
C14_MissSkipped ==
  \A i \in DOMAIN calls : calls[i].name # "fire" => AttrOf(calls[i].voice).present

\* what one SoundNodeList.update leaves, as C15 counts it
BagOf(msgs) == [m \in {msgs[k] : k \in DOMAIN msgs} |-> Count(msgs, m)]
Outcome(S) ==
  [events |-> BagOf(S.inst.sent),
   slots  |-> {S.inst.playing[k] : k \in DOMAIN S.inst.playing},
   ctx    |-> S.ctx]
OutcomesIn(order, tick) ==
  {Outcome(S) : S \in UpdateVoicesIn(order, {[inst |-> InstNow, ctx |-> global_note,
                                              snotes |-> seq_notes, trace |-> <<>>]},
                                     1, tick)}
Orders ==
  {o \in [DOMAIN VoiceOrder -> Voices] : \A a, b \in DOMAIN VoiceOrder : a # b => o[a] # o[b]}

\* C15: from every state and for every tick, SoundNodeList.update leaves the
\* same messages (as a multiset), the same slots and the same context of every
\* Voice in whatever order the Voices are advanced.
C15_OrderIndependent ==
  running =>
    \A tick \in now..Min(now + MaxDelta, MaxClock) :
      \A o \in Orders : OutcomesIn(o, tick) = OutcomesIn(VoiceOrder, tick)

\* C16: when an on_play set the context in a sub-step, every Voice holds the
\* new index afterwards, and every fire of that sub-step that went on to the
\* Instrument for a Voice whose cell attributes use the shared notes (the Voice
\* that set the context included) sent notes of the new index, and none only
\* if the new index has none for the Voice.
C16_ContextSameTick ==
  \A i \in DOMAIN calls : calls[i].name = "on_play" =>
    /\ \A v \in Voices : global_note[v] = calls[i].index
    /\ \A j \in DOMAIN calls :
         (calls[j].name = "fire" /\ Plays(calls[j].voice)
            /\ AttrOf(calls[j].voice).use_global_notes) =>
           LET g   == GlobalNotes(calls[i].index, calls[j].voice)
               ons == FireNoteOns(j)
           IN  /\ g # <<>> => ons # <<>>
               /\ \A n \in DOMAIN ons : \E k \in DOMAIN g : g[k] = ons[n].note

\* the theme changed the context from one index of the score to another and
\* played a note of the new one, and arp, fired in the same sub-step, played a
\* note of the new one too
C16_Witness ==
  \E i, j, k \in DOMAIN calls :
    /\ calls[i].name = "on_play" /\ calls[i].old # calls[i].index
    /\ IsNoteOn(calls[j]) /\ calls[j].voice = "theme"
    /\ IsNoteOn(calls[k]) /\ calls[k].voice = "arp"
    /\ GlobalNotes(calls[i].old, "arp") # <<>>
    /\ GlobalNotes(calls[i].old, "arp") # GlobalNotes(calls[i].index, "arp")

\* C17: a fire that goes on to the Instrument sends, when the cell asks for an
\* arpeggio and more than one note is available, exactly one note_on, for one
\* of the available notes, and each of them can be the one; otherwise it sends
\* a note_on for every available note, in order.
C17_Arpeggio ==
  /\ \A i \in DOMAIN calls :
       (calls[i].name = "fire" /\ Plays(calls[i].voice)) =>
         LET v   == calls[i].voice
             ns  == ResolveNotes(AttrOf(v), CtxAt(i, v), v)
             ons == FireNoteOns(i)
         IN  IF AttrOf(v).arpeggio /\ Len(ns) > 1
             THEN Len(ons) = 1 /\ \E k \in DOMAIN ns : SameNote(ons[1], ns[k])
             ELSE Len(ons) = Len(ns) /\ \A k \in DOMAIN ns : SameNote(ons[k], ns[k])
  /\ \A v \in Voices :
       LET S0 == [inst |-> InstNow, ctx |-> global_note, snotes |-> seq_notes,
                  trace |-> <<>>]
           ns == ResolveNotes(AttrOf(v), global_note[v], v)
       IN  (Plays(v) /\ OnPlay(S0, v, CellOf(v)) = S0 /\ AttrOf(v).arpeggio /\ Len(ns) > 1) =>
             \A k \in DOMAIN ns :
               \E S \in PlayNote(S0, v) : SameNote(S.trace[Len(S.trace)], ns[k])

\* arp, over a cell asking for an arpeggio, had two notes available and sent
\* the second one alone
C17_Witness ==
  \E i \in DOMAIN calls :
    /\ calls[i].name = "fire" /\ calls[i].voice = "arp" /\ Plays("arp")
    /\ AttrOf("arp").arpeggio
    /\ Len(ResolveNotes(AttrOf("arp"), CtxAt(i, "arp"), "arp")) = 2
    /\ Len(FireNoteOns(i)) = 1 /\ FireNoteOns(i)[1].note = 64

\* C18: after a fire that went on to the Instrument, the Voice's Sequencer
\* holds the sequence override of the cell if the cell has one, and the Voice's
\* own sequence if not.
C18_SequenceSwap ==
  \A i \in DOMAIN calls :
    (calls[i].name = "fire" /\ Plays(calls[i].voice)) =>
      LET v == calls[i].voice
      IN  seq_notes[v] = IF AttrOf(v).has_sequence THEN AttrOf(v).sequence
                         ELSE OwnSequence(v)

\* kick fired at offset 1, which only the override of the other cell holds,
\* over a cell without an override, and has its own sequence back (the theme,
\* whose one offset is 0, was not called back: the tick passed no offset 0)
C18_Witness ==
  /\ \E i \in DOMAIN calls : calls[i].name = "fire" /\ calls[i].voice = "kick"
  /\ \A i \in DOMAIN calls : calls[i].voice # "theme"
  /\ now % Scene.loop_length = 1
  /\ Plays("kick") /\ ~AttrOf("kick").has_sequence
  /\ seq_notes["kick"] = OwnSequence("kick")

\* C19: after every PhysicsField.update every node's position lies within the
\* field, from its origin to its origin plus its extent, in each dimension.
C19_InsideField ==
  updates > 0 =>
    \A i \in DOMAIN nodes :
      /\ Field.px * Field.unit <= nodes[i].px
      /\ nodes[i].px <= (Field.px + Field.width) * Field.unit
      /\ Field.py * Field.unit <= nodes[i].py
      /\ nodes[i].py <= (Field.py + Field.height) * Field.unit

\* C20: get_cell_at returns no cell for a position left of or above the grid
\* or at or past its right or bottom edge, and for every other position the
\* one cell of the grid whose rectangle, closed at its left and top and open at
\* its right and bottom, holds the position.
C20_CellAt ==
  lookup.done =>
    LET outside == \/ lookup.x < 0 \/ lookup.y < 0
                   \/ lookup.x >= grid.cols * grid.cell_width
                   \/ lookup.y >= grid.rows * grid.cell_height
        holding == {c \in GridCells(grid) :
                      /\ c.x <= lookup.x /\ lookup.x < c.x + c.width
                      /\ c.y <= lookup.y /\ lookup.y < c.y + c.height}
    IN  IF outside THEN lookup.cell = NoCell
        ELSE /\ lookup.cell # NoCell
             /\ holding = {GridCell(grid, lookup.cell[1], lookup.cell[2])}

\* the last position of the last cell of a grid of wide cells was looked up,
\* and a position one short of the grid's left edge
C20_Witness ==
  /\ lookup.done /\ grid.cell_width > 1 /\ grid.cols > 1
  /\ \/ /\ lookup.x = grid.cols * grid.cell_width - 1
        /\ lookup.y = grid.rows * grid.cell_height - 1
        /\ lookup.cell = <<grid.rows - 1, grid.cols - 1>>
     \/ lookup.x = 0 - 1 /\ lookup.cell = NoCell

\* C21: no Sequencer exists with a loop length of zero or less, and no
\* PhysicsNode with a mass of zero or less, and no update of a constructed
\* object raises because of such a number.
C21_InvalidRejected ==
  /\ built_seq.made => built_seq.number > 0
  /\ built_node.made => built_node.number > 0
  /\ built_seq.error = "" /\ built_node.error = ""

\* C22: the step that ends the main loop sends one NoteOff for every slot the
\* Instrument holds at that moment, and nothing else, and leaves the Instrument
\* with no slot.
C22_StopReleasesAll ==
  [][ (running /\ ~running') =>
        /\ playing' = <<>>
        /\ Len(sent') = Len(playing)
        /\ \A k \in DOMAIN playing :
             Count(sent', NoteOffMsg(playing[k].channel, playing[k].note)) = 1 ]_vars

\* the loop ended with a note sounding on a channel other than 0
C22_Witness ==
  /\ ~running /\ playing = <<>>
  /\ \E i \in DOMAIN sent : sent[i].type = "note_off" /\ sent[i].channel # 0

\* C23 as stated: between operations the Sequencer's last_tick lies in
\* [0, loop_length).
C23_Original ==
  0 <= last_tick /\ last_tick < length

\* C23: between operations the Sequencer's last_tick is the tick of the last
\* update, not reduced (0 before the first update), so it is never negative;
\* it is its remainder by loop_length that lies in [0, loop_length).
C23_LastTickIsTick ==
  /\ last_tick = IF call.done THEN call.tick ELSE 0
  /\ last_tick >= 0
  /\ 0 <= last_tick % length /\ last_tick % length < length

\* the Sequencer was updated with a tick of loop_length or more
C23_Witness ==
  call.done /\ last_tick >= length /\ length > 1

\* C24 as stated: of two distances the nearer has the strictly greater
\* attraction.
C24_Original ==
  measured.done => Greater(measured.f_near, measured.f_far)

\* C24: of two distances the nearer never has the smaller attraction; it has
\* the strictly greater one exactly when the farther distance lies past the cap
\* (MAX_ATTRACTIVE_FORCE * dist_sq > ATTRACTIVE_FORCE_CONST), and within the
\* cap both attractions are MAX_ATTRACTIVE_FORCE.
C24_NonIncreasing ==
  measured.done =>
    /\ ~Greater(measured.f_far, measured.f_near)
    /\ Greater(measured.f_near, measured.f_far)
         <=> (MAX_ATTRACTIVE_FORCE * measured.far > ATTRACTIVE_FORCE_CONST)
    /\ MAX_ATTRACTIVE_FORCE * measured.far <= ATTRACTIVE_FORCE_CONST =>
         measured.f_near = [num |-> MAX_ATTRACTIVE_FORCE, den |-> 1]
           /\ measured.f_far = measured.f_near

\* two distances within the cap were measured, and two past it
C24_Witness ==
  /\ measured.done
  /\ \/ measured.f_near = measured.f_far /\ measured.near > 1
     \/ /\ MAX_ATTRACTIVE_FORCE * measured.near > ATTRACTIVE_FORCE_CONST
        /\ Greater(measured.f_near, measured.f_far)

\* the nodes visited last to first
Backwards(ns) == [k \in DOMAIN ns |-> Len(ns) + 1 - k]

\* C25: a PhysicsField.update leaves every node where the force summed over the
\* positions held when the update began, then the boundary test and the move,
\* put it: no force is computed from a position the same update has changed,
\* and visiting the nodes last to first gives the same nodes.
C25_ForcesBeforeMoves ==
  [][ updates' = updates + 1 =>
        \E current_tick \in PhysTicks :
          LET dt == DtOf(current_tick)
          IN  /\ \A i \in DOMAIN nodes :
                   nodes'[i] = ApplyVelocity(
                                 CheckBoundary(ApplyForce(nodes[i], GetForce(nodes, i))), dt)
              /\ nodes' = MovePassIn(Backwards(nodes),
                                     ForcePassIn(Backwards(nodes), nodes, 1), dt, 1) ]_vars

\* after two updates both nodes move and still attract each other
C25_Witness ==
  /\ updates >= 2
  /\ \A i \in DOMAIN nodes : nodes[i].vx # 0 /\ nodes[i].vy # 0
  /\ \E i \in DOMAIN nodes : GetForce(nodes, i) # [fx |-> 0, fy |-> 0]

IsRelease(e) == e.name = "channel_note_off"

\* what one fire of Voice v does to the slots of the Instrument of S
FireReleases(S, v) ==
  \A T \in PlayNote(S, v) :
    LET retriggered(s) ==
          \E i \in DOMAIN T.trace :
            /\ IsNoteOn(T.trace[i]) /\ T.trace[i].gate_time > 0
            /\ T.trace[i].channel = s.channel /\ T.trace[i].note = s.note
    IN  /\ \A k \in DOMAIN S.inst.playing :
             LET s == S.inst.playing[k]
             IN  IF s.channel = 0
                 THEN /\ Count(T.inst.sent, NoteOffMsg(0, s.note)) = 1
                      /\ HasSlot(T.inst.playing, 0, s.note) => retriggered(s)
                 ELSE \/ \E j \in DOMAIN T.inst.playing : T.inst.playing[j] = s
                      \/ retriggered(s)
        /\ \A m \in DOMAIN T.inst.sent :
             T.inst.sent[m].type = "note_off" =>
               /\ T.inst.sent[m].channel = 0
               /\ HasSlot(S.inst.playing, 0, T.inst.sent[m].note)

\* the Voices' state and the Instrument the variables hold, before a fire
FireNow == [inst |-> InstNow, ctx |-> global_note, snotes |-> seq_notes, trace |-> <<>>]

\* C26: every fire of an enabled Voice over a cell with attributes for it calls
\* channel_note_off(0) exactly once, before every note_on of the fire, whatever
\* channels its notes are on and also when it resolves no note; the fire, coming
\* first in a sub-step or after another Voice's fire, sends one NoteOff for
\* every slot held on channel 0, sends no NoteOff on another channel and leaves
\* the slots of other channels held.
C26_FireReleasesLead ==
  /\ \A i \in DOMAIN calls :
       (calls[i].name = "fire" /\ Plays(calls[i].voice)) =>
         LET made == FireCalls(i)
         IN  /\ Len(SelectSeq(made, IsRelease)) = 1
             /\ \A k \in DOMAIN made :
                  /\ IsRelease(made[k]) => made[k].channel = 0
                  /\ IsNoteOn(made[k]) => \E r \in 1..(k - 1) : IsRelease(made[r])
  /\ \A v \in Voices :
       Plays(v) =>
         /\ FireReleases(FireNow, v)
         /\ \A w \in Voices : \A T \in PlayNote(FireNow, w) :
              FireReleases([T EXCEPT !.inst.sent = <<>>, !.trace = <<>>], v)

\* a Voice able to fire while the Instrument holds a slot on channel 0 and one
\* on another channel, after a fire whose notes were all on other channels
C26_Witness ==
  /\ \E v \in Voices : Plays(v)
  /\ \E k \in DOMAIN playing : playing[k].channel = 0
  /\ \E k \in DOMAIN playing : playing[k].channel # 0
  /\ \E i \in DOMAIN calls :
       /\ calls[i].name = "fire" /\ Plays(calls[i].voice)
       /\ \A k \in DOMAIN FireNoteOns(i) : FireNoteOns(i)[k].channel # 0

\* C27: between operations every registered slot has a gate time above 0 and an
\* elapsed time of at least 0 and below its gate time, whatever the order of
\* note_on, channel_note_off and update calls.
C27_SlotsWithinGate ==
  \A i \in DOMAIN playing :
    /\ playing[i].gate_time > 0
    /\ 0 <= playing[i].tick_elapsed
    /\ playing[i].tick_elapsed < playing[i].gate_time

\* an update has advanced a slot to one tick short of its gate
C27_Witness ==
  /\ op.name = "update" /\ op.tick > op.before
  /\ \E i \in DOMAIN playing :
       playing[i].tick_elapsed > 0 /\ playing[i].tick_elapsed = playing[i].gate_time - 1

\* the slot held for key k in slots (there is one)
SlotOf(slots, k) == slots[SlotIndex(slots, k[1], k[2])]

\* C28: in every step and for every key, one NoteOff is sent when the step
\* removes the key's slot and none otherwise (a step that replaces the slot or
\* finds no slot sends none); a slot appears only by a note_on of its key with
\* gate time above 0, so a key's NoteOffs never outnumber its gated NoteOns and
\* at most one follows each; channel_note_off(c) leaves the slots of other
\* channels as they are, and update keeps every slot whose gate has not expired.
C28_NoteOffOnlyOnRemoval ==
  [][ /\ \A k \in Keys :
           LET i    == SlotIndex(playing, k[1], k[2])
               j    == SlotIndex(playing', k[1], k[2])
               offs == Count(sent', NoteOffMsg(k[1], k[2]))
               d    == Max(op'.tick - inst_last_tick, 0)
           IN  /\ offs = IF i > 0 /\ j = 0 THEN 1 ELSE 0
               /\ (j > 0 /\ (i = 0 \/ playing'[j].tick_elapsed < playing[i].tick_elapsed
                                   \/ playing'[j].gate_time # playing[i].gate_time)) =>
                    /\ op'.name = "note_on" /\ op'.gate_time > 0
                    /\ op'.channel = k[1] /\ op'.note = k[2]
               /\ (op'.name = "channel_note_off" /\ k[1] # op'.channel /\ i > 0) =>
                    j > 0 /\ playing'[j] = playing[i]
               /\ (op'.name = "update" /\ i > 0
                     /\ playing[i].tick_elapsed + d < playing[i].gate_time) =>
                    j > 0 /\ playing'[j] = [playing[i] EXCEPT !.tick_elapsed = @ + d]
      /\ \A m \in DOMAIN sent' :
           sent'[m].type = "note_off" => <<sent'[m].channel, sent'[m].note>> \in Keys
      /\ gate_log'.live => gate_log'.offs <= 1 ]_vars

\* an update removed one slot with its NoteOff and kept another, part-way
\* through its gate
C28_Witness ==
  /\ op.name = "update" /\ Len(sent) = 1 /\ sent[1].type = "note_off"
  /\ \E i \in DOMAIN playing : playing[i].tick_elapsed > 0

\* C30: a note_on with gate_time <= 0 (0 as called, or a negative one in its
\* place) sends its NoteOn and nothing else and leaves every slot, the one of
\* its own key included, as it was: no slot is ever held with a gate time of 0
\* or less, and every NoteOff a later update or channel_note_off sends is for a
\* key that held a slot.
C30_UngatedNoteOn ==
  [][ /\ (op'.name = "note_on" /\ op'.gate_time <= 0) =>
           /\ playing' = playing
           /\ sent' = <<NoteOnMsg(op'.channel, op'.note, 8)>>
           /\ InstNoteOn(InstNow, op'.channel, op'.note, 0 - 1, 8)
                = [InstNow EXCEPT !.sent = sent']
      /\ \A i \in DOMAIN playing' : playing'[i].gate_time > 0
      /\ \A m \in DOMAIN sent' :
           sent'[m].type = "note_off" => HasSlot(playing, sent'[m].channel, sent'[m].note)
    ]_vars

\* a note_on without gate for a key whose slot is part-way through its gate
C30_Witness ==
  /\ op.name = "note_on" /\ op.gate_time <= 0
  /\ HasSlot(playing, op.channel, op.note)
  /\ SlotOf(playing, <<op.channel, op.note>>).tick_elapsed > 0

\* the watched key holds a slot; a NoteOff for it was sent in the last step and
\* its slot is gone; the last step was a note_on with gate for it
Held        == HasSlot(playing, watch[1], watch[2])
Released    == Count(sent, NoteOffMsg(watch[1], watch[2])) > 0 /\ ~Held
Retriggered ==
  /\ op.name = "note_on" /\ op.gate_time > 0
  /\ op.channel = watch[1] /\ op.note = watch[2]

\* C29 as stated: under a clock that keeps advancing, a key that holds a slot
\* is always followed by a NoteOff for the key with the slot removed.
C29_Original == Held ~> Released

\* C29: under a clock that keeps advancing, a key that holds a slot is followed
\* by a NoteOff for the key with the slot removed, unless note_on calls with
\* gate time above 0 for the key never cease (each replaces the slot with one of
\* elapsed time 0 and sends no NoteOff).
C29_UnlessRetriggered == ([]<>Retriggered) \/ (Held ~> Released)

\* an update after the clock advanced sent the key's NoteOff at its gate and
\* kept a slot of another key
C29_Witness ==
  /\ op.name = "update" /\ op.tick > 0
  /\ Released /\ playing # <<>>

\* the last update was the first one of the Sequencer
FirstUpdate == call.done /\ ~call0.done

\* C31 as stated: the first update(tick0) fires exactly the notes with offsets
\* in (0, tick0 mod length], and a note at offset 0 is fired by it exactly when
\* tick0 has reached the first multiple of length.
C31_Original ==
  FirstUpdate =>
    \A i \in DOMAIN notes :
      Count(call.fired, i) =
        IF notes[i] = 0
        THEN (IF call.tick >= length THEN 1 ELSE 0)
        ELSE (IF notes[i] <= call.tick % length THEN 1 ELSE 0)

\* C31: a Sequencer starts with last_tick = 0 and its first update(tick0) fires
\* exactly the notes with offsets in (0, tick0 mod length], once each, so never
\* a note at offset 0; while every update since the start advanced the clock by
\* less than length, a note at offset 0 has fired once for every multiple of
\* length the clock has reached: not before the first one, and once by the
\* update that reaches or passes it.
C31_FirstUpdate ==
  /\ ~call.done => last_tick = 0
  /\ FirstUpdate =>
       /\ call.before = 0
       /\ \A i \in DOMAIN notes :
            Count(call.fired, i) =
              IF 0 < notes[i] /\ notes[i] <= call.tick % length THEN 1 ELSE 0
  /\ run_start = 0 =>
       \A i \in DOMAIN notes : notes[i] = 0 => run_fires[i] = last_tick \div length

\* after a first update short of the loop's end, a later one has passed the
\* first multiple of length and fired the note at offset 0 for the first time
C31_Witness ==
  /\ call0.done /\ run_start = 0 /\ length > 1
  /\ call.before < length /\ call.before > 0 /\ call.tick > length
  /\ \E i \in DOMAIN notes :
       notes[i] = 0 /\ run_fires[i] = 1 /\ Count(call.fired, i) = 1

IsFire(e) == e.name = "fire"

\* the offsets of the Notes Voice v was called back for, in order, in trace
FiredOffsets(trace, v) ==
  LET mine(e) == IsFire(e) /\ e.voice = v
      fires   == SelectSeq(trace, mine)
  IN  [k \in DOMAIN fires |-> fires[k].note]

\* C32: in every sub-step each Voice is called back for exactly the notes the
\* scan finds in the note list its Sequencer held when the update began, once
\* each and in that list's order, also when one of the callbacks installs
\* another list; the list installed is the one the next update scans, from
\* last_tick equal to this update's tick.
C32_ScanOverHeldList ==
  [][ calls' # <<>> =>
        \A v \in Voices :
          LET held  == seq_notes[v]
              fired == SeqFired(held, Scene.loop_length, seq_last[v], now')
          IN  /\ FiredOffsets(calls', v) = [k \in DOMAIN fired |-> held[fired[k]]]
              /\ seq_last'[v] = now' ]_vars

\* the clock went from offset 0 to offset 2 (arp was called back for 1 and 2);
\* kick, holding the override <<1>>, was called back for offset 1 alone and
\* that fire installed its own sequence, whose offset 2 lay in the scanned arc
C32_Witness ==
  /\ FiredOffsets(calls, "arp") = <<1, 2>>
  /\ FiredOffsets(calls, "kick") = <<1>>
  /\ Plays("kick") /\ ~AttrOf("kick").has_sequence
  /\ seq_notes["kick"] = OwnSequence("kick")

\* Voice v's body is on the right or the bottom edge of the field
OnEdge(v) == body_pos[v][1] = Scene.width \/ body_pos[v][2] = Scene.height

\* nodes past the right edge, past the bottom edge and past both, as
\* check_boundary leaves them
ClampedNodes ==
  LET right  == (Field.px + Field.width) * Field.unit
      bottom == (Field.py + Field.height) * Field.unit
  IN  { CheckBoundary([px |-> x, py |-> y, vx |-> 10, vy |-> 10]) :
          x \in {right \div 2, right + 1, right + 50},
          y \in {bottom \div 2, bottom + 1, bottom + 50} }
        \ {[px |-> right \div 2, py |-> bottom \div 2, vx |-> 10, vy |-> 10]}

\* C33: with the grid covering the field, a node check_boundary has put on the
\* right or bottom edge is under no cell, and a fire of a Voice whose body is
\* on one of these edges makes no on_play call and no Instrument call; a
\* sub-step in which only such Voices fire sends no NoteOn.
C33_EdgeSilent ==
  /\ MainGrid.cols * MainGrid.cell_width = Field.width
  /\ MainGrid.rows * MainGrid.cell_height = Field.height
  /\ \A n \in ClampedNodes :
       /\ \/ n.px = (Field.px + Field.width) * Field.unit
          \/ n.py = (Field.py + Field.height) * Field.unit
       /\ CellUnder(n) = NoCell
  /\ \A i \in DOMAIN calls :
       (IsFire(calls[i]) /\ OnEdge(calls[i].voice)) =>
         /\ CellOf(calls[i].voice) = NoCell
         /\ FireCalls(i) = <<>>
  /\ (calls # <<>> /\ \A i \in DOMAIN calls : OnEdge(calls[i].voice)) =>
       \A k \in DOMAIN sent : sent[k].type # "note_on"

\* the enabled theme fired with its body on the right edge and kick with its
\* body on the bottom edge, neither did anything, while arp played
C33_Witness ==
  /\ enable["theme"] /\ body_pos["theme"] = <<Scene.width, 0>>
  /\ enable["kick"] /\ body_pos["kick"] = <<0, Scene.height>>
  /\ \E i \in DOMAIN calls : IsFire(calls[i]) /\ calls[i].voice = "theme"
  /\ \E i \in DOMAIN calls : IsFire(calls[i]) /\ calls[i].voice = "kick"
  /\ \E i \in DOMAIN calls : IsNoteOn(calls[i]) /\ calls[i].voice = "arp"
====
